---- MODULE Spec2Model ----
(***************************************************************************)
(* A state-machine model of interpreter.c: the parser compile_tree, the    *)
(* driver main, the disposal routine free_tree and the tree-walking        *)
(* executor execute_tree.  One action per loop iteration / switch case of  *)
(* the C code; the heap of Node structs is a sequence of records addressed *)
(* by index (NULL is 0), in allocation order.                              *)
(***************************************************************************)
EXTENDS Integers, Sequences, FiniteSets, TLC

(* ------------------------------ constants ------------------------------ *)

TAPE_SIZE == 65535

MAX_LOOP_DEPTH == 512

NULL == 0

\* stdio's end-of-file value, as returned by getchar
EOF == -1

\* unsigned char arithmetic is modulo 256
UCHAR_MOD == 256

\* exitCode while the process is still running
NoStatus == -1

(* -------------------------------- bounds ------------------------------- *)

\* longest source of the exhaustive family (every byte of the alphabet)
MaxLen == 3

\* longest source of the bracket family (loops, ',' and nothing else)
MaxNest == 6

\* longest standard input of the exhaustive family
MaxIn == 1

\* bytes written to standard output before the model stops following a run
MaxOut == 4

\* how far from cell 0 (on either side, circularly) the model follows the pointer
MaxReach == 4

\* the deep family nests MAX_LOOP_DEPTH - DeepSlack .. MAX_LOOP_DEPTH + DeepSlack loops
DeepSlack == 1

(* ------------------------------- alphabet ------------------------------ *)

Primitives == {">", "<", "+", "-", ".", ","}

Triggers == Primitives \cup {"[", "]"}

\* one representative of the bytes the parser ignores
CommentByte == " "

Alphabet == Triggers \cup {CommentByte}

NodeTypeOf(c) ==
    CASE c = ">" -> "NODE_INC_PTR"
      [] c = "<" -> "NODE_DEC_PTR"
      [] c = "+" -> "NODE_INC_VAL"
      [] c = "-" -> "NODE_DEC_VAL"
      [] c = "." -> "NODE_OUT"
      [] c = "," -> "NODE_IN"
      [] c = "[" -> "NODE_LOOP"

MsgTooDeep == "Error: loop nesting too deep"

MsgUnmatchedClose == "Syntax error: unmatched ']'"

MsgUnmatchedOpen == "Syntax error: unmatched '['"

MsgNoMemory == "Memory allocation failed."

MsgNoTape == "Memory allocation failed for data tape."

(* ------------------------------- inputs -------------------------------- *)

SeqsUpTo(S, n) == UNION {[1..k -> S] : k \in 0..n}

Range(s) == {s[i] : i \in DOMAIN s}

Rep(c, n) == [i \in 1..n |-> c]

SmallSources == SeqsUpTo(Alphabet, MaxLen)

InBytes == {0, 65}

SmallInputs == SeqsUpTo(InBytes, MaxIn)

\* The runs of the given sources on the given inputs: at most one input byte
\* for each ',' of the source.  A source without ',' never calls getchar: its
\* standard input is left empty.
RunsOf(sources, inputs) ==
    {r \in sources \X inputs : Len(r[2]) <= Len(SelectSeq(r[1], LAMBDA c : c = ","))}

SmallRuns == RunsOf(SmallSources, SmallInputs)

\* Every bracket structure up to MaxNest bytes; ',' lets an input byte open the loops.
NestSources == SeqsUpTo({"[", "]", ","}, MaxNest)

NestInputs == SeqsUpTo({1}, MaxIn)

NestRuns == RunsOf(NestSources, NestInputs)

\* The programs the specification names, on every one-byte input.
ByteSources == {<<",", ".">>, <<",", "[", "-", "]">>}

ByteRuns == {<<s, <<b>> >> : s \in ByteSources, b \in 0..(UCHAR_MOD - 1)}

\* Nesting at and around the limit: pre [^k - ]^j.  Beyond the limit the scan
\* stops at a '[', so one j is enough there.
DeepCloses(k) ==
    IF k > MAX_LOOP_DEPTH THEN {MAX_LOOP_DEPTH} ELSE {MAX_LOOP_DEPTH - 1, MAX_LOOP_DEPTH}

\* Only a source that parses is executed: a leading '+', which makes its loops
\* run, goes with k = j only.
DeepStarts(k, j) == IF k = j THEN {<<>>, <<"+">>} ELSE {<<>>}

DeepSources ==
    UNION {UNION {{pre \o Rep("[", k) \o <<"-">> \o Rep("]", j) : pre \in DeepStarts(k, j)} :
                  j \in DeepCloses(k)} :
           k \in (MAX_LOOP_DEPTH - DeepSlack)..(MAX_LOOP_DEPTH + DeepSlack)}

DeepRuns == {<<s, <<>> >> : s \in DeepSources}

\* ++++++++[>++++++++<-]>.  : 8 times 8 into cell 1, then written
MulProgram ==
    Rep("+", 8) \o <<"[", ">">> \o Rep("+", 8) \o <<"<", "-", "]", ">", ".">>

\* a full turn of a cell, upwards and downwards, then written
IncLapProgram == Rep("+", UCHAR_MOD) \o <<".">>

DecLapProgram == Rep("-", UCHAR_MOD) \o <<".">>

ProgramSources == {MulProgram, IncLapProgram, DecLapProgram}

ProgramRuns == {<<s, <<>> >> : s \in ProgramSources}

Runs == SmallRuns \cup NestRuns \cup ByteRuns \cup DeepRuns \cup ProgramRuns

(* -------------------------------- state -------------------------------- *)

VARIABLES
    source,         \* the bytes of the file behind fp
    pos,            \* bytes of it getc has returned
    fpOpen,         \* the FILE handle is open
    input,          \* the bytes of standard input
    inpos,          \* bytes of it getchar has returned
    stdout,         \* bytes putchar has written
    stderr,         \* messages written to the error stream
    heap,           \* every Node new_node has allocated, by address 1..Len(heap)
    freed,          \* the addresses passed to free(), in order
    root, last_top, loop_stack, last_at_depth, depth,   \* compile_tree's locals
    program,        \* main's program: what compile_tree returned
    tape,           \* the calloc'ed buffer: "none", "live" or "freed"
    data,           \* its non-zero cells (every other cell is 0)
    ptr,            \* main's ptr
    stack,          \* the node of every active execute_tree call, innermost last
    fstack,         \* the frame of every active free_tree call, innermost last
    cont,           \* who called the outermost free_tree
    pc,             \* "compile", "compiled", "exec", "free", "done"
    exitCode        \* the process's exit status once pc = "done"

files == <<source, pos, fpOpen, input, inpos, stdout, stderr>>

parser == <<root, last_top, loop_stack, last_at_depth, depth>>

runtime == <<tape, data, ptr, stack>>

vars == <<source, pos, fpOpen, input, inpos, stdout, stderr, heap, freed,
          root, last_top, loop_stack, last_at_depth, depth, program,
          tape, data, ptr, stack, fstack, cont, pc, exitCode>>

\* The empty array: no index written yet.
NoEntries == [i \in {} |-> NULL]

\* Array f with f[k] = v.
Put(f, k, v) == [x \in (DOMAIN f) \cup {k} |-> IF x = k THEN v ELSE f[x]]

\* main after a successful fopen, entering compile_tree (lines 51-61)
Init ==
    /\ \E r \in Runs : source = r[1] /\ input = r[2]
    /\ pos = 0
    /\ fpOpen = TRUE
    /\ inpos = 0
    /\ stdout = <<>>
    /\ stderr = <<>>
    /\ heap = <<>>
    /\ freed = <<>>
    /\ root = NULL
    /\ last_top = NULL
    /\ loop_stack = NoEntries
    /\ last_at_depth = NoEntries
    /\ depth = 0
    /\ program = NULL
    /\ tape = "none"
    /\ data = NoEntries
    /\ ptr = 0
    /\ stack = <<>>
    /\ fstack = <<>>
    /\ cont = "none"
    /\ pc = "compile"
    /\ exitCode = NoStatus

(* ------------------------------- new_node ------------------------------ *)

\* The heap after a successful new_node(type); the node's address is Len(h) + 1.
new_node(h, type) == Append(h, [type |-> type, child |-> NULL, next |-> NULL])

SetNext(h, p, n) == [h EXCEPT ![p].next = n]

SetChild(h, p, n) == [h EXCEPT ![p].child = n]

(* ----------------------------- compile_tree ---------------------------- *)

\* last_at_depth[d]: the for loop of lines 60-61 set every entry to NULL
LastAtDepth(d) == IF d \in DOMAIN last_at_depth THEN last_at_depth[d] ELSE NULL

\* loop_stack[d]: no initialiser, only what '[' has stored
LoopStack(d) == loop_stack[d]

\* getc's end-of-file result (source bytes are one-character strings)
FileEnd == "EOF"

\* what the next getc(fp) returns
NextByte == IF pos < Len(source) THEN source[pos + 1] ELSE FileEnd

\* Linked storing every node of a loop's block as the loop's child
Linked_ChildOverwritten(h, n) ==
    IF depth = 0
    THEN IF root = NULL THEN h ELSE SetNext(h, last_top, n)
    ELSE SetChild(h, LoopStack(depth - 1), n)

\* The heap after node n is appended to the current block (lines 83-95, 116-128).
Linked(h, n) ==
    IF depth = 0
    THEN IF root = NULL THEN h ELSE SetNext(h, last_top, n)
    ELSE LET parent == LoopStack(depth - 1) IN
         IF h[parent].child = NULL
         THEN SetChild(h, parent, n)
         ELSE SetNext(h, LastAtDepth(depth), n)

\* The locals root, last_top and last_at_depth after node n is appended.
AttachLocals(n) ==
    IF depth = 0
    THEN /\ root' = (IF root = NULL THEN n ELSE root)
         /\ last_top' = n
    ELSE /\ UNCHANGED <<root, last_top>>

\* TooDeep with the limit off by one
TooDeep_OffByOne == depth > MAX_LOOP_DEPTH

\* line 75: the test that rejects a '['
TooDeep == depth >= MAX_LOOP_DEPTH

\* line 103: the test that rejects a ']'
NoLoopOpen == depth = 0

\* LoopStillOpen with the test at end of file left out
LoopStillOpen_Unchecked == FALSE

\* line 131: the test at end of file
LoopStillOpen == depth # 0

\* free_tree(node) is entered on behalf of caller c
CallFreeTree(node, c) ==
    /\ fstack' = <<[node |-> node, childDone |-> FALSE]>>
    /\ cont' = c
    /\ pc' = "free"

\* ParsePrimitive without the stores to last_at_depth (lines 120, 127)
ParsePrimitive_NoLastUpdate ==
    /\ pc = "compile"
    /\ NextByte \in Primitives
    /\ LET n == Len(heap) + 1 IN
       /\ heap' = Linked(new_node(heap, NodeTypeOf(NextByte)), n)
       /\ AttachLocals(n)
    /\ pos' = pos + 1
    /\ UNCHANGED <<source, fpOpen, input, inpos, stdout, stderr, freed, last_at_depth,
                   loop_stack, depth, program, runtime, fstack, cont, pc, exitCode>>

\* lines 67-72 and 116-128: a primitive instruction
ParsePrimitive ==
    /\ pc = "compile"
    /\ NextByte \in Primitives
    /\ LET n == Len(heap) + 1 IN
       /\ heap' = Linked(new_node(heap, NodeTypeOf(NextByte)), n)
       /\ AttachLocals(n)
       /\ last_at_depth' = Put(last_at_depth, depth, n)
    /\ pos' = pos + 1
    /\ UNCHANGED <<source, fpOpen, input, inpos, stdout, stderr, freed,
                   loop_stack, depth, program, runtime, fstack, cont, pc, exitCode>>

\* lines 74, 81-100: '[' below the nesting limit
ParseOpen ==
    /\ pc = "compile"
    /\ NextByte = "["
    /\ ~TooDeep
    /\ LET n == Len(heap) + 1 IN
       /\ heap' = Linked(new_node(heap, "NODE_LOOP"), n)
       /\ AttachLocals(n)
       /\ last_at_depth' = Put(Put(last_at_depth, depth, n), depth + 1, NULL)
       /\ loop_stack' = Put(loop_stack, depth, n)
    /\ depth' = depth + 1
    /\ pos' = pos + 1
    /\ UNCHANGED <<source, fpOpen, input, inpos, stdout, stderr, freed,
                   program, runtime, fstack, cont, pc, exitCode>>

\* lines 74-79: '[' at the nesting limit
ParseTooDeep ==
    /\ pc = "compile"
    /\ NextByte = "["
    /\ TooDeep
    /\ stderr' = Append(stderr, MsgTooDeep)
    /\ CallFreeTree(root, "compile_tree")
    /\ pos' = pos + 1
    /\ UNCHANGED <<source, fpOpen, input, inpos, stdout, heap, freed, parser,
                   program, runtime, exitCode>>

\* lines 102, 108-109: ']' closing the innermost open loop
ParseClose ==
    /\ pc = "compile"
    /\ NextByte = "]"
    /\ ~NoLoopOpen
    /\ depth' = depth - 1
    /\ pos' = pos + 1
    /\ UNCHANGED <<source, fpOpen, input, inpos, stdout, stderr, heap, freed,
                   root, last_top, loop_stack, last_at_depth, program, runtime,
                   fstack, cont, pc, exitCode>>

\* ParseUnmatchedClose as a lenient parser would do it: the stray ']' is skipped
ParseUnmatchedClose_Skipped ==
    /\ pc = "compile"
    /\ NextByte = "]"
    /\ NoLoopOpen
    /\ pos' = pos + 1
    /\ UNCHANGED <<source, fpOpen, input, inpos, stdout, stderr, heap, freed,
                   parser, program, runtime, fstack, cont, pc, exitCode>>

\* lines 102-107: ']' with no loop open
ParseUnmatchedClose ==
    /\ pc = "compile"
    /\ NextByte = "]"
    /\ NoLoopOpen
    /\ stderr' = Append(stderr, MsgUnmatchedClose)
    /\ CallFreeTree(root, "compile_tree")
    /\ pos' = pos + 1
    /\ UNCHANGED <<source, fpOpen, input, inpos, stdout, heap, freed, parser,
                   program, runtime, exitCode>>

\* lines 111-112: any other byte
ParseComment ==
    /\ pc = "compile"
    /\ NextByte # FileEnd
    /\ NextByte \notin Triggers
    /\ pos' = pos + 1
    /\ UNCHANGED <<source, fpOpen, input, inpos, stdout, stderr, heap, freed,
                   parser, program, runtime, fstack, cont, pc, exitCode>>

\* lines 63, 131-135: end of file with a loop still open
ParseUnmatchedOpen ==
    /\ pc = "compile"
    /\ NextByte = FileEnd
    /\ LoopStillOpen
    /\ stderr' = Append(stderr, MsgUnmatchedOpen)
    /\ CallFreeTree(root, "compile_tree")
    /\ UNCHANGED <<source, pos, fpOpen, input, inpos, stdout, heap, freed, parser,
                   program, runtime, exitCode>>

\* lines 63, 131, 137 and 192: end of file at depth 0, compile_tree returns root
ParseReturn ==
    /\ pc = "compile"
    /\ NextByte = FileEnd
    /\ ~LoopStillOpen
    /\ program' = root
    /\ pc' = "compiled"
    /\ UNCHANGED <<files, heap, freed, parser, runtime, fstack, cont, exitCode>>

(* ------------------------------- free_tree ----------------------------- *)

FTop == fstack[Len(fstack)]

\* FreeChild without the recursive call: the loop's body is passed over
FreeChild_Skipped ==
    /\ pc = "free"
    /\ FTop.node # NULL
    /\ ~FTop.childDone
    /\ heap[FTop.node].child # NULL
    /\ fstack' = [fstack EXCEPT ![Len(fstack)].childDone = TRUE]
    /\ UNCHANGED <<files, heap, freed, parser, program, runtime, cont, pc, exitCode>>

\* lines 40-42: the node has a child, free_tree(node->child) is called
FreeChild ==
    /\ pc = "free"
    /\ FTop.node # NULL
    /\ ~FTop.childDone
    /\ heap[FTop.node].child # NULL
    /\ fstack' = Append([fstack EXCEPT ![Len(fstack)].childDone = TRUE],
                        [node |-> heap[FTop.node].child, childDone |-> FALSE])
    /\ UNCHANGED <<files, heap, freed, parser, program, runtime, cont, pc, exitCode>>

\* lines 43-45: next = node->next; free(node); node = next
FreeNode ==
    /\ pc = "free"
    /\ FTop.node # NULL
    /\ FTop.childDone \/ heap[FTop.node].child = NULL
    /\ freed' = Append(freed, FTop.node)
    /\ fstack' = [fstack EXCEPT ![Len(fstack)] =
                      [node |-> heap[FTop.node].next, childDone |-> FALSE]]
    /\ UNCHANGED <<files, heap, parser, program, runtime, cont, pc, exitCode>>

\* lines 40, 47: node is NULL, a recursive free_tree call returns
FreeReturn ==
    /\ pc = "free"
    /\ FTop.node = NULL
    /\ Len(fstack) > 1
    /\ fstack' = SubSeq(fstack, 1, Len(fstack) - 1)
    /\ UNCHANGED <<files, heap, freed, parser, program, runtime, cont, pc, exitCode>>

\* lines 78, 106, 134 and 192: free_tree(root) is over, compile_tree returns NULL
CompileFails ==
    /\ pc = "free"
    /\ FTop.node = NULL
    /\ Len(fstack) = 1
    /\ cont = "compile_tree"
    /\ fstack' = <<>>
    /\ cont' = "none"
    /\ program' = NULL
    /\ pc' = "compiled"
    /\ UNCHANGED <<files, heap, freed, parser, runtime, exitCode>>

\* lines 202 and 209-210: free_tree(program) is over, main returns
MainReturns ==
    /\ pc = "free"
    /\ FTop.node = NULL
    /\ Len(fstack) = 1
    /\ cont \in {"main_ok", "main_nomem"}
    /\ fstack' = <<>>
    /\ cont' = "none"
    /\ exitCode' = (IF cont = "main_ok" THEN 0 ELSE 1)
    /\ pc' = "done"
    /\ UNCHANGED <<files, heap, freed, parser, program, runtime>>

(* --------------------------------- main -------------------------------- *)

\* lines 193-196: fclose(fp); a NULL program ends the process with status 1
MainRejects ==
    /\ pc = "compiled"
    /\ fpOpen' = FALSE
    /\ program = NULL
    /\ exitCode' = 1
    /\ pc' = "done"
    /\ UNCHANGED <<source, pos, input, inpos, stdout, stderr, heap, freed, parser,
                   program, runtime, fstack, cont>>

\* MainExecutes without the test of line 195
MainExecutes_NoNullTest ==
    /\ pc = "compiled"
    /\ fpOpen' = FALSE
    /\ tape' = "live"
    /\ data' = NoEntries
    /\ ptr' = 0
    /\ stack' = <<program>>
    /\ pc' = "exec"
    /\ UNCHANGED <<source, pos, input, inpos, stdout, stderr, heap, freed, parser,
                   program, fstack, cont, exitCode>>

\* lines 193-206: fclose(fp); calloc succeeds; execute_tree(program, data, &ptr)
MainExecutes ==
    /\ pc = "compiled"
    /\ fpOpen' = FALSE
    /\ ~(program = NULL)
    /\ tape' = "live"
    /\ data' = NoEntries
    /\ ptr' = 0
    /\ stack' = <<program>>
    /\ pc' = "exec"
    /\ UNCHANGED <<source, pos, input, inpos, stdout, stderr, heap, freed, parser,
                   program, fstack, cont, exitCode>>

(* ----------------------------- execute_tree ---------------------------- *)

\* data[p]
Cell(p) == IF p \in DOMAIN data THEN data[p] ELSE 0

\* Store clearing every other cell
Store_ClearsOthers(p, v) == IF v = 0 THEN NoEntries ELSE Put(NoEntries, p, v)

\* the tape after data[p] = v
Store(p, v) ==
    IF v = 0
    THEN [x \in (DOMAIN data) \ {p} |-> data[x]]
    ELSE Put(data, p, v)

\* IncPtr stopping at the last cell
IncPtr_Sticks(p) == IF p = TAPE_SIZE - 1 THEN p ELSE p + 1

\* line 145
IncPtr(p) == (p + 1) % TAPE_SIZE

\* DecPtr without the wrap-around
DecPtr_NoWrap(p) == p - 1

\* line 149
DecPtr(p) == (p + TAPE_SIZE - 1) % TAPE_SIZE

\* IncVal stopping at the greatest value
IncVal_Saturates(v) == IF v = UCHAR_MOD - 1 THEN v ELSE v + 1

\* line 153: unsigned char ++
IncVal(v) == (v + 1) % UCHAR_MOD

\* DecVal with the increment's operator
DecVal_Increments(v) == (v + 1) % UCHAR_MOD

\* line 157: unsigned char --
DecVal(v) == (v + UCHAR_MOD - 1) % UCHAR_MOD

\* the value the next getchar() returns
GetChar == IF inpos < Len(input) THEN input[inpos + 1] ELSE EOF

\* InVal leaving the cell as it was on end-of-stream
InVal_KeepsOnEOF(ch, old) == IF ch = EOF THEN old ELSE ch % UCHAR_MOD

\* line 166: what ',' stores for getchar's result ch, the cell holding old
InVal(ch, old) == IF ch = EOF THEN 0 ELSE ch % UCHAR_MOD

\* LoopTest entering the body whatever the cell holds
LoopTest_Always(v) == TRUE

\* line 171: the loop test on the cell's value
LoopTest(v) == v # 0

\* the node of the innermost active call
Top == stack[Len(stack)]

\* line 176: node = node->next in the innermost call
Advance == [stack EXCEPT ![Len(stack)] = heap[Top].next]

AtNode(type) == pc = "exec" /\ Top # NULL /\ heap[Top].type = type

\* the model follows the pointer only near cell 0, on either side
InReach(p) == ~(MaxReach < p /\ p < TAPE_SIZE - MaxReach)

\* lines 144-146
ExecIncPtr ==
    /\ AtNode("NODE_INC_PTR")
    /\ InReach(IncPtr(ptr))
    /\ ptr' = IncPtr(ptr)
    /\ stack' = Advance
    /\ UNCHANGED <<files, heap, freed, parser, program, tape, data, fstack, cont,
                   pc, exitCode>>

\* lines 148-150
ExecDecPtr ==
    /\ AtNode("NODE_DEC_PTR")
    /\ InReach(DecPtr(ptr))
    /\ ptr' = DecPtr(ptr)
    /\ stack' = Advance
    /\ UNCHANGED <<files, heap, freed, parser, program, tape, data, fstack, cont,
                   pc, exitCode>>

\* lines 152-154
ExecIncVal ==
    /\ AtNode("NODE_INC_VAL")
    /\ data' = Store(ptr, IncVal(Cell(ptr)))
    /\ stack' = Advance
    /\ UNCHANGED <<files, heap, freed, parser, program, tape, ptr, fstack, cont,
                   pc, exitCode>>

\* lines 156-158
ExecDecVal ==
    /\ AtNode("NODE_DEC_VAL")
    /\ data' = Store(ptr, DecVal(Cell(ptr)))
    /\ stack' = Advance
    /\ UNCHANGED <<files, heap, freed, parser, program, tape, ptr, fstack, cont,
                   pc, exitCode>>

\* ExecOut writing the pointer where the cell is meant
ExecOut_WritesPointer ==
    /\ AtNode("NODE_OUT")
    /\ Len(stdout) < MaxOut
    /\ stdout' = Append(stdout, ptr)
    /\ stack' = Advance
    /\ UNCHANGED <<source, pos, fpOpen, input, inpos, stderr, heap, freed, parser,
                   program, tape, data, ptr, fstack, cont, pc, exitCode>>

\* lines 160-162
ExecOut ==
    /\ AtNode("NODE_OUT")
    /\ Len(stdout) < MaxOut
    /\ stdout' = Append(stdout, Cell(ptr))
    /\ stack' = Advance
    /\ UNCHANGED <<source, pos, fpOpen, input, inpos, stderr, heap, freed, parser,
                   program, tape, data, ptr, fstack, cont, pc, exitCode>>

\* lines 164-168
ExecIn ==
    /\ AtNode("NODE_IN")
    /\ data' = Store(ptr, InVal(GetChar, Cell(ptr)))
    /\ inpos' = (IF GetChar = EOF THEN inpos ELSE inpos + 1)
    /\ stack' = Advance
    /\ UNCHANGED <<source, pos, fpOpen, input, stdout, stderr, heap, freed, parser,
                   program, tape, ptr, fstack, cont, pc, exitCode>>

\* ExecLoopBody passing over a loop that has no body
ExecLoopBody_SkipsEmpty ==
    /\ AtNode("NODE_LOOP")
    /\ LoopTest(Cell(ptr))
    /\ stack' = (IF heap[Top].child = NULL THEN Advance
                                            ELSE Append(stack, heap[Top].child))
    /\ UNCHANGED <<files, heap, freed, parser, program, tape, data, ptr, fstack,
                   cont, pc, exitCode>>

\* lines 170-172: the test holds, execute_tree(node->child, data, ptr) is called
ExecLoopBody ==
    /\ AtNode("NODE_LOOP")
    /\ LoopTest(Cell(ptr))
    /\ stack' = Append(stack, heap[Top].child)
    /\ UNCHANGED <<files, heap, freed, parser, program, tape, data, ptr, fstack,
                   cont, pc, exitCode>>

\* lines 171, 173, 176: the test fails, the loop node is done
ExecLoopExit ==
    /\ AtNode("NODE_LOOP")
    /\ ~LoopTest(Cell(ptr))
    /\ stack' = Advance
    /\ UNCHANGED <<files, heap, freed, parser, program, tape, data, ptr, fstack,
                   cont, pc, exitCode>>

\* ExecReturn calling execute_tree on the loop again where it should return to it
ExecReturn_Recurses ==
    /\ pc = "exec"
    /\ Top = NULL
    /\ Len(stack) > 1
    /\ stack' = Append(stack, stack[Len(stack) - 1])
    /\ UNCHANGED <<files, heap, freed, parser, program, tape, data, ptr, fstack,
                   cont, pc, exitCode>>

\* lines 142, 178: node is NULL, a recursive call returns to the loop test
ExecReturn ==
    /\ pc = "exec"
    /\ Top = NULL
    /\ Len(stack) > 1
    /\ stack' = SubSeq(stack, 1, Len(stack) - 1)
    /\ UNCHANGED <<files, heap, freed, parser, program, tape, data, ptr, fstack,
                   cont, pc, exitCode>>

\* lines 142, 178 and 208-209: the outermost call returns; free(data); free_tree(program)
MainFinishes ==
    /\ pc = "exec"
    /\ Top = NULL
    /\ Len(stack) = 1
    /\ stack' = <<>>
    /\ tape' = "freed"
    /\ fstack' = <<[node |-> program, childDone |-> FALSE]>>
    /\ cont' = "main_ok"
    /\ pc' = "free"
    /\ UNCHANGED <<files, heap, freed, parser, program, data, ptr, exitCode>>

(* ---------------------------- specifications --------------------------- *)

Parse ==
    \/ ParsePrimitive
    \/ ParseOpen
    \/ ParseTooDeep
    \/ ParseClose
    \/ ParseUnmatchedClose
    \/ ParseComment
    \/ ParseUnmatchedOpen
    \/ ParseReturn

Free ==
    \/ FreeChild
    \/ FreeNode
    \/ FreeReturn
    \/ CompileFails
    \/ MainReturns

Exec ==
    \/ ExecIncPtr
    \/ ExecDecPtr
    \/ ExecIncVal
    \/ ExecDecVal
    \/ ExecOut
    \/ ExecIn
    \/ ExecLoopBody
    \/ ExecLoopExit
    \/ ExecReturn

Next == Parse \/ Free \/ MainRejects \/ MainExecutes \/ Exec \/ MainFinishes

\* every allocation succeeds
Spec == Init /\ [][Next]_vars

\* the process is scheduled as long as it can take a step
SpecFair == Spec /\ WF_vars(Next)

(* -------------------------- allocation failures ------------------------ *)

\* lines 27-31: malloc returns NULL in new_node; exit(1) closes the open streams
NewNodeFails ==
    /\ pc = "compile"
    /\ \/ NextByte \in Primitives
       \/ NextByte = "[" /\ ~TooDeep
    /\ stderr' = Append(stderr, MsgNoMemory)
    /\ pos' = pos + 1
    /\ fpOpen' = FALSE
    /\ exitCode' = 1
    /\ pc' = "done"
    /\ UNCHANGED <<source, input, inpos, stdout, heap, freed, parser, program,
                   runtime, fstack, cont>>

\* lines 193-203: calloc returns NULL; free_tree(program); return 1
CallocFails ==
    /\ pc = "compiled"
    /\ fpOpen' = FALSE
    /\ ~(program = NULL)
    /\ stderr' = Append(stderr, MsgNoTape)
    /\ CallFreeTree(program, "main_nomem")
    /\ UNCHANGED <<source, pos, input, inpos, stdout, heap, freed, parser, program,
                   runtime, exitCode>>

NextOOM == Next \/ NewNodeFails \/ CallocFails

\* malloc and calloc may fail at any call
SpecOOM == Init /\ [][NextOOM]_vars

(* ------------------------ what a source looks like --------------------- *)

\* the change of nesting depth a byte stands for
Delta(c) == IF c = "[" THEN 1 ELSE IF c = "]" THEN -1 ELSE 0

Min2(a, b) == IF a < b THEN a ELSE b

Max2(a, b) == IF a > b THEN a ELSE b

\* Over the bytes lo..hi of s: the sum of their Deltas and the least and greatest
\* sum over the prefixes of that stretch (the empty prefix included).
RECURSIVE Scan(_, _, _)
Scan(s, lo, hi) ==
    IF lo > hi THEN [sum |-> 0, min |-> 0, max |-> 0]
    ELSE IF lo = hi
    THEN [sum |-> Delta(s[lo]), min |-> Min2(0, Delta(s[lo])), max |-> Max2(0, Delta(s[lo]))]
    ELSE LET m == (lo + hi) \div 2
             L == Scan(s, lo, m)
             R == Scan(s, m + 1, hi)
         IN  [sum |-> L.sum + R.sum,
              min |-> Min2(L.min, L.sum + R.min),
              max |-> Max2(L.max, L.sum + R.max)]

Profile(s) == Scan(s, 1, Len(s))

\* every ']' closes an open '[' and every '[' is closed
Balanced(s) == Profile(s).min >= 0 /\ Profile(s).sum = 0

\* the greatest number of loops open at once
MaxDepth(s) == Profile(s).max

\* a stray ']', a '[' left open, or nesting beyond the limit
HasSyntaxError(s) == ~Balanced(s) \/ MaxDepth(s) > MAX_LOOP_DEPTH

\* the sources of the model
Sources == {r[1] : r \in Runs}

\* those with a syntax error
SyntaxErrorSources == {s \in Sources : HasSyntaxError(s)}

NoTrigger(s) == Range(s) \cap Triggers = {}

\* s holds exactly one '[', and no ']' after it
OneOpenUnmatched(s) ==
    \E i \in DOMAIN s :
        /\ s[i] = "["
        /\ \A j \in DOMAIN s : j # i => s[j] # "["
        /\ \A j \in (i + 1)..Len(s) : s[j] # "]"

\* the first trigger character of s is ']'
FirstTriggerIsClose(s) ==
    \E i \in DOMAIN s :
        /\ s[i] = "]"
        /\ \A j \in 1..(i - 1) : s[j] \notin Triggers

\* The first byte of s[lo..hi] at which the nesting depth, base before s[lo],
\* leaves 0..MAX_LOOP_DEPTH; 0 when there is none.
RECURSIVE FirstBad(_, _, _, _)
FirstBad(s, lo, hi, base) ==
    IF lo > hi THEN 0
    ELSE IF lo = hi
    THEN IF base + Delta(s[lo]) < 0 \/ base + Delta(s[lo]) > MAX_LOOP_DEPTH THEN lo ELSE 0
    ELSE LET m == (lo + hi) \div 2 IN
         IF base + Scan(s, lo, m).min < 0 \/ base + Scan(s, lo, m).max > MAX_LOOP_DEPTH
         THEN FirstBad(s, lo, m, base)
         ELSE FirstBad(s, m + 1, hi, base + Scan(s, lo, m).sum)

\* for every source of the model, the byte at which its first bracket error shows
FirstBadByte == [s \in Sources |-> FirstBad(s, 1, Len(s), 0)]

\* byte i of s is a '[' met with MAX_LOOP_DEPTH loops open, nothing wrong before it
OverDeepAt(s, i) == i >= 1 /\ FirstBadByte[s] = i /\ s[i] = "["

\* s opens a loop beyond the limit before any other error
ReachesOverDepth(s) == OverDeepAt(s, FirstBadByte[s])

\* the balanced sources that nest exactly MAX_LOOP_DEPTH deep
FullDepthSources == {s \in Sources : MaxDepth(s) = MAX_LOOP_DEPTH /\ Balanced(s)}

AllNodes == 1..Len(heap)

\* every allocated node has been freed, none of them twice
AllFreedOnce == Len(freed) = Len(heap) /\ Range(freed) = AllNodes

(* -------------------------------- claims ------------------------------- *)

\* C1: a source with no trigger character ends with exit code 0, no output byte
\* and no error message.
C1_CommentOnlyExitsZero ==
    (pc = "done" /\ NoTrigger(source)) =>
        (exitCode = 0 /\ stdout = <<>> /\ stderr = <<>>)

\* C2: for a source with a syntax error the executor never starts (no output
\* byte, no input byte consumed, no tape), the run never stops short of its
\* exit, and it exits with code 1.  Stated by contraposition: a state that
\* shows any of these belongs to a source without syntax error.
C2_SyntaxErrorNeverExecutes ==
    (\/ pc = "exec"
     \/ stdout # <<>>
     \/ inpos # 0
     \/ tape # "none"
     \/ stack # <<>>
     \/ (pc = "done" /\ exitCode # 1)
     \/ (pc # "done" /\ ~ENABLED Next))
    => source \notin SyntaxErrorSources

C2_Witness ==
    /\ pc = "done"
    /\ exitCode = 1
    /\ source \in SyntaxErrorSources
    /\ Len(heap) >= 2
    /\ input # <<>>

\* C3 as claimed: a source with exactly one '[' that no ']' matches fails with
\* the unmatched-'[' message and returns no tree, whatever its other bytes.
C3_OneOpenAnyOtherBytes ==
    (pc = "compiled" /\ OneOpenUnmatched(source)) =>
        (stderr = <<"Syntax error: unmatched '['">> /\ program = NULL)

\* C3 amended: a source with exactly one '[' and no ']' at all fails with the
\* unmatched-'[' message, returns no tree and has freed every node.
C3_OneOpenNoClose ==
    (pc = "compiled" /\ OneOpenUnmatched(source) /\ "]" \notin Range(source)) =>
        (stderr = <<"Syntax error: unmatched '['">> /\ program = NULL /\ AllFreedOnce)

C3_Witness ==
    /\ pc = "compiled"
    /\ OneOpenUnmatched(source)
    /\ "]" \notin Range(source)
    /\ Len(heap) >= 3
    /\ stderr = <<"Syntax error: unmatched '['">>

\* C4: a source whose first trigger character is ']' fails with the
\* unmatched-']' message and returns no tree, having allocated no node.
C4_LeadingCloseFails ==
    (pc = "compiled" /\ FirstTriggerIsClose(source)) =>
        (stderr = <<"Syntax error: unmatched ']'">> /\ program = NULL /\ heap = <<>>)

C4_Witness ==
    /\ pc = "compiled"
    /\ FirstTriggerIsClose(source)
    /\ source[1] = CommentByte
    /\ Len(source) >= 3
    /\ stderr = <<"Syntax error: unmatched ']'">>

\* C5: a '[' fails with the nesting message exactly when MAX_LOOP_DEPTH loops
\* are already open: a source that opens one more fails there and returns no
\* tree, a balanced source nesting exactly MAX_LOOP_DEPTH deep parses, the
\* message is never written anywhere else, and the scan stops at that '['.
C5_TooDeepExactlyAtLimit ==
    /\ (pc = "compiled" /\ ReachesOverDepth(source)) =>
           (stderr = <<"Error: loop nesting too deep">> /\ program = NULL)
    /\ (pc = "compiled" /\ source \in FullDepthSources) =>
           (stderr = <<>> /\ program # NULL)
    /\ ("Error: loop nesting too deep" \in Range(stderr)) =>
           OverDeepAt(source, pos)
    /\ (pos >= 1 /\ source[pos] = "[" /\ OverDeepAt(source, pos)) =>
           (pc # "compile" /\ stderr = <<"Error: loop nesting too deep">>)

C5_Witness ==
    /\ pc = "compiled"
    /\ ReachesOverDepth(source)
    /\ Len(heap) >= MAX_LOOP_DEPTH
    /\ stderr = <<"Error: loop nesting too deep">>

\* C6: while the tape exists the pointer is a valid index into it, and every
\* cell written lies inside it.
C6_PointerInBounds ==
    /\ tape = "live" => (0 <= ptr /\ ptr < TAPE_SIZE)
    /\ \A p \in DOMAIN data : 0 <= p /\ p < TAPE_SIZE

C6_Witness ==
    /\ pc = "exec"
    /\ ptr = TAPE_SIZE - 1
    /\ DOMAIN data # {}

\* C7: when the process has exited, the file handle is closed, the tape is not
\* held and every allocated node has been freed.
C7_EveryExitReleasesAll ==
    pc = "done" => (~fpOpen /\ tape # "live" /\ AllFreedOnce)

\* C8: no node is ever freed twice, none is freed while the parser or the
\* executor still uses the tree, and once a failed parse has returned or the
\* process has exited every allocated node has been freed exactly once.
C8_NodesFreedOnce ==
    /\ Cardinality(Range(freed)) = Len(freed)
    /\ Range(freed) \subseteq AllNodes
    /\ pc \in {"compile", "exec"} => freed = <<>>
    /\ (pc = "done" \/ (pc = "compiled" /\ program = NULL)) => AllFreedOnce

C8_Witness ==
    /\ pc = "compiled"
    /\ program = NULL
    /\ Len(heap) >= 4
    /\ \E n \in AllNodes : heap[n].child # NULL /\ heap[heap[n].child].child # NULL
    /\ AllFreedOnce

\* node n is a loop whose body is the single instruction '-'
DecLoop(n) ==
    /\ n # NULL
    /\ heap[n].type = "NODE_LOOP"
    /\ heap[n].child # NULL
    /\ heap[heap[n].child].type = "NODE_DEC_VAL"
    /\ heap[heap[n].child].next = NULL

\* the executor is at a '[-]' whose cell is not 0, or inside its body
RunningDecLoop ==
    /\ pc = "exec"
    /\ \/ DecLoop(Top) /\ Cell(ptr) # 0
       \/ /\ Len(stack) >= 2
          /\ DecLoop(stack[Len(stack) - 1])
          /\ Top \in {heap[stack[Len(stack) - 1]].child, NULL}

\* every cell but the one under the pointer keeps its value in this step
OtherCellsKept ==
    \A p \in ((DOMAIN data) \cup (DOMAIN data')) \ {ptr} :
        (IF p \in DOMAIN data' THEN data'[p] ELSE 0) = Cell(p)

\* the cell under the pointer after this step
CellAfter == IF ptr' \in DOMAIN data' THEN data'[ptr'] ELSE 0

\* Where a running '[-]' stands in its pass: at the loop test, before the '-',
\* or after it.
DecLoopPhase == IF DecLoop(Top) THEN 0 ELSE IF Top = NULL THEN 1 ELSE -1

\* The steps a running '[-]' still has to take before its cell is 0 at the test:
\* three a pass (test, '-', return), one pass for each unit of the cell.
DecLoopRank == 3 * Cell(ptr) + DecLoopPhase

\* A step of a running '[-]' keeps the pointer and every other cell, takes 1 from
\* the cell or leaves it, brings the loop one step nearer to its end, and leaves
\* the loop only with the cell at 0.
DecLoopStep ==
    RunningDecLoop =>
        /\ ptr' = ptr
        /\ OtherCellsKept
        /\ CellAfter \in {Cell(ptr), Cell(ptr) - 1}
        /\ \/ RunningDecLoop' /\ DecLoopRank' = DecLoopRank - 1
           \/ ~RunningDecLoop' /\ pc' = "exec" /\ CellAfter = 0 /\ DecLoopRank = 1

\* a running '[-]' can always take its next step, and has at most 3 * 255 to take
DecLoopGoesOn ==
    RunningDecLoop => (ENABLED Next /\ DecLoopRank \in 1..(3 * (UCHAR_MOD - 1)))

\* C9: a '[-]' started on a non-zero cell v changes nothing but that cell, counts
\* it down by one a pass and is left after exactly 3 * v steps (v passes), with
\* the cell at 0.
C9_DecLoopClearsCell ==
    /\ [][DecLoopStep]_vars
    /\ []DecLoopGoesOn

C9_Witness ==
    /\ pc = "done"
    /\ source = <<",", "[", "-", "]">>
    /\ input = <<255>>
    /\ inpos = 1
    /\ data = NoEntries
    /\ ptr = 0

\* what ',' has to store: the next input byte, or 0 when there is none left
ExpectedIn == IF inpos < Len(input) THEN input[inpos + 1] ELSE 0

\* A ',' stores the byte read or, at end-of-stream, 0; it consumes that byte
\* and changes nothing else of the tape.
InStep ==
    (pc = "exec" /\ Top # NULL /\ heap[Top].type = "NODE_IN") =>
        /\ CellAfter = ExpectedIn
        /\ CellAfter \in 0..255
        /\ ptr' = ptr
        /\ OtherCellsKept
        /\ inpos' = (IF inpos < Len(input) THEN inpos + 1 ELSE inpos)

\* the program ',.' writes the input byte, or 0 when the input is empty
EchoesOneByte ==
    (pc = "done" /\ source = <<",", ".">>) =>
        (exitCode = 0 /\ stdout = <<(IF input = <<>> THEN 0 ELSE input[1])>>)

\* C10: ',' stores the byte read and, at end-of-stream, 0 whatever the cell
\* held, every time; so ',.' echoes its input byte, or writes 0 on empty input.
C10_InputStoresByteOrZero ==
    /\ [][InStep]_vars
    /\ []EchoesOneByte

C10_Witness ==
    /\ pc = "done"
    /\ source = <<"+", ",", ".">>
    /\ input = <<>>
    /\ stdout = <<0>>

\* The nodes of MulProgram have their addresses in allocation order, that of the
\* source: the loop has the address of its '[' (9) and its body the next ones.
MulLoop == CHOOSE i \in DOMAIN MulProgram : MulProgram[i] = "["

\* the nodes of its body (11)
MulBody == (CHOOSE i \in DOMAIN MulProgram : MulProgram[i] = "]") - MulLoop - 1

\* every byte but the ']' makes a node (22)
MulNodes == Len(MulProgram) - 1

\* the steps of one pass of the loop: the test, the body nodes, the return
MulPass == MulBody + 2

\* the steps execute_tree and main's call of free_tree still take, at the loop
\* test with cell 0 holding c: c passes, the failing test, '>', '.', the return
MulFromTest(c) == MulPass * c + 4

\* the steps left in execute_tree
MulExecRank ==
    IF Len(stack) = 1
    THEN IF Top = NULL THEN 1
         ELSE IF Top < MulLoop THEN (MulLoop - Top) + MulFromTest(MulLoop - 1)
         ELSE IF Top = MulLoop THEN MulFromTest(Cell(0))
         ELSE (MulNodes - Top) + 2
    ELSE IF Top = NULL THEN 1 + MulFromTest(Cell(0))
         ELSE (MulLoop + MulBody + 1 - Top) + 1 + MulFromTest(Cell(0) - 1)

\* the steps left in free_tree(program) and main's return: one free a node, one
\* call and one return for the loop's body
MulFreeRank ==
    (MulNodes - Len(freed))
    + (IF Len(fstack) = 1 /\ Len(freed) < MulLoop THEN 1 ELSE 0)
    + (IF Len(freed) < MulLoop \/ Len(fstack) = 2 THEN 1 ELSE 0)
    + 1

\* the steps of a whole free_tree(program) and of a whole execute_tree
MulFreeSteps == MulNodes + 3

MulExecSteps == (MulLoop - 1) + MulFromTest(MulLoop - 1)

\* the steps the run of MulProgram still takes before the process has exited
MulRank ==
    CASE pc = "compile"  -> (Len(source) - pos) + 2 + MulExecSteps + MulFreeSteps
      [] pc = "compiled" -> 1 + MulExecSteps + MulFreeSteps
      [] pc = "exec"     -> MulExecRank + MulFreeSteps
      [] pc = "free"     -> MulFreeRank
      [] pc = "done"     -> 0

\* every step of the run brings it one step nearer to its exit
MulStep == (source = MulProgram) => MulRank' = MulRank - 1

\* the run never stops short of its exit, writes nothing but one byte of value
\* 64, and exits with code 0 and that byte written
MulRuns ==
    (source = MulProgram) =>
        /\ stdout \in {<<>>, <<64>>}
        /\ stderr = <<>>
        /\ MulRank >= 0
        /\ pc # "done" => ENABLED Next
        /\ pc = "done" => (exitCode = 0 /\ stdout = <<64>>)

\* C11: the run of ++++++++[>++++++++<-]>. ends (every step lowers the count of
\* the steps left, which is never negative, and a step is always possible short
\* of the exit) with exit code 0, having written exactly one byte, of value 64.
C11_MulWrites64 ==
    /\ [][MulStep]_vars
    /\ []MulRuns

C11_Witness ==
    /\ pc = "done"
    /\ source = MulProgram
    /\ exitCode = 0
    /\ stdout = <<64>>
    /\ data = Put(NoEntries, 1, 64)
    /\ ptr = 1

\* The map F on 0..n-1 as a table: entry i holds F(i - 1).
TableOf(F(_), n) == [i \in 1..n |-> F(i - 1)] \o <<>>

\* the table of f followed by g
Then(f, g) == [i \in 1..Len(f) |-> g[f[i] + 1]] \o <<>>

\* the table of f applied n times in a row (n >= 1)
RECURSIVE Repeated(_, _)
Repeated(f, n) ==
    IF n = 1 THEN f
    ELSE LET h == Repeated(f, n \div 2)
             twice == Then(h, h)
         IN  IF n % 2 = 0 THEN twice ELSE Then(twice, f)

\* where TAPE_SIZE consecutive '>' take the pointer, from every position
ForwardLap == Repeated(TableOf(IncPtr, TAPE_SIZE), TAPE_SIZE)

ForwardLapReturns == \A p \in 0..(TAPE_SIZE - 1) : ForwardLap[p + 1] = p

\* '>' takes p to (p + 1) mod N, the last cell to cell 0; '<' takes p to
\* (p - 1) mod N, cell 0 to the last cell
PtrStep ==
    /\ AtNode("NODE_INC_PTR") =>
           /\ ptr' = (ptr + 1) % TAPE_SIZE
           /\ ptr = TAPE_SIZE - 1 => ptr' = 0
    /\ AtNode("NODE_DEC_PTR") =>
           /\ ptr' = (ptr - 1) % TAPE_SIZE
           /\ ptr = 0 => ptr' = TAPE_SIZE - 1

\* C12: pointer motion is circular over TAPE_SIZE positions: every '>' and '<'
\* moves by one modulo TAPE_SIZE, and TAPE_SIZE consecutive forward moves bring
\* the pointer back, from every position and so from the one it is at.
C12_PointerIsCircular ==
    /\ [][PtrStep]_vars
    /\ [](ForwardLapReturns /\ (tape = "live" => ForwardLap[ptr + 1] = ptr))

C12_Witness ==
    /\ pc = "done"
    /\ source = <<"<", ">", "<">>
    /\ ptr = TAPE_SIZE - 1

\* what UCHAR_MOD consecutive '+', or '-', make of a cell, for every value
IncLap == Repeated(TableOf(IncVal, UCHAR_MOD), UCHAR_MOD)

DecLap == Repeated(TableOf(DecVal, UCHAR_MOD), UCHAR_MOD)

LapsReturn ==
    \A v \in 0..(UCHAR_MOD - 1) : IncLap[v + 1] = v /\ DecLap[v + 1] = v

\* '+' takes v to (v + 1) mod 256, 255 to 0; '-' takes v to (v - 1) mod 256,
\* 0 to 255
ValStep ==
    /\ AtNode("NODE_INC_VAL") =>
           /\ CellAfter = (Cell(ptr) + 1) % 256
           /\ Cell(ptr) = 255 => CellAfter = 0
    /\ AtNode("NODE_DEC_VAL") =>
           /\ CellAfter = (Cell(ptr) - 1) % 256
           /\ Cell(ptr) = 0 => CellAfter = 255

\* In the runs of 256 '+' and of 256 '-' on cell 0, node k is reached after
\* k - 1 steps: the cell then holds k - 1, resp. -(k - 1), modulo 256, and the
\* byte written after the 256th is the 0 the cell started from.
LapPrograms ==
    /\ (pc = "exec" /\ Top # NULL /\ source = IncLapProgram) =>
           Cell(0) = (Top - 1) % 256
    /\ (pc = "exec" /\ Top # NULL /\ source = DecLapProgram) =>
           Cell(0) = (1 - Top) % 256
    /\ (pc = "done" /\ source \in {IncLapProgram, DecLapProgram}) =>
           (stdout = <<0>> /\ data = NoEntries)

\* C13: cell arithmetic wraps modulo 256: every '+' and '-' adds or takes 1
\* modulo 256, and 256 consecutive '+', or 256 consecutive '-', bring a cell
\* back to its value, from every value and in the runs of the programs that
\* do it on cell 0.
C13_CellWrapsModulo256 ==
    /\ [][ValStep]_vars
    /\ [](LapsReturn /\ IncLap[Cell(ptr) + 1] = Cell(ptr) /\ LapPrograms)

C13_Witness ==
    /\ pc = "done"
    /\ source = DecLapProgram
    /\ stdout = <<0>>
    /\ data = NoEntries

\* the character a node of the given type stands for
CharOf(type) == CHOOSE c \in Triggers \ {"]"} : NodeTypeOf(c) = type

\* the trigger characters of s, in order
TriggersOf(s) == SelectSeq(s, LAMBDA c : c \in Triggers)

\* One step of writing a tree out.  w.stk holds the node of every chain being
\* written, innermost last; a loop stays on it while its body is written.
WalkStep(h, w) ==
    IF w.stk = <<>> THEN w
    ELSE LET n == w.stk[Len(w.stk)]
             rest == SubSeq(w.stk, 1, Len(w.stk) - 1)
         IN  IF n = NULL
             THEN IF rest = <<>>
                  THEN [stk |-> <<>>, out |-> w.out]
                  ELSE [stk |-> Append(SubSeq(rest, 1, Len(rest) - 1),
                                       h[rest[Len(rest)]].next),
                        out |-> Append(w.out, "]")]
             ELSE IF h[n].type = "NODE_LOOP"
             THEN [stk |-> Append(w.stk, h[n].child), out |-> Append(w.out, "[")]
             ELSE [stk |-> Append(rest, h[n].next),
                   out |-> Append(w.out, CharOf(h[n].type))]

\* k steps of it
RECURSIVE Walk(_, _, _)
Walk(h, w, k) ==
    IF k = 0 THEN w
    ELSE IF k = 1 THEN WalkStep(h, w)
    ELSE LET half == Walk(h, w, k \div 2)
         IN  IF half.stk = <<>> THEN half ELSE Walk(h, half, k - k \div 2)

\* The tree under r written out: a primitive as its character, a loop as '[',
\* its body chain, ']', siblings in next-order.  A node takes one step and a
\* loop one more; stk is empty when the whole tree was written.
Serialise(h, r) == Walk(h, [stk |-> <<r>>, out |-> <<>>], 2 * Len(h) + 1)

\* C14: for a balanced source within the depth limit compile_tree reports
\* nothing and returns a tree that, written out, is the sequence of the
\* source's trigger characters; every node allocated is in that tree.
C14_TreeMirrorsSource ==
    (pc = "compiled" /\ source \notin SyntaxErrorSources) =>
        /\ stderr = <<>>
        /\ program = root
        /\ LET w == Serialise(heap, program)
           IN  w.stk = <<>> /\ w.out = TriggersOf(source)
        /\ Len(heap) = Len(SelectSeq(source, LAMBDA c : c \in Triggers \ {"]"}))

C14_Witness ==
    /\ pc = "compiled"
    /\ source = <<"[", "[", ",", "]", ",", "]">>
    /\ Serialise(heap, program).out = source
    /\ heap[1].child = 2
    /\ heap[2].next = 4
    /\ heap[4].next = NULL

\* the executor is at a loop node, about to test the cell
AtLoop == AtNode("NODE_LOOP")

\* the stack below its innermost call
Callers == SubSeq(stack, 1, Len(stack) - 1)

\* this step leaves tape, pointer and both streams as they are
NoEffect == data' = data /\ ptr' = ptr /\ stdout' = stdout /\ inpos' = inpos

\* At a loop node the cell decides: 0 ends the loop, with no effect and the
\* executor at the node after it; anything else starts a pass at the first node
\* of the body.  Inside a body no step ends the call, whatever the cell holds.
\* At the end of the body the call returns to the loop node, for the next test.
LoopStep ==
    /\ (AtLoop /\ Cell(ptr) = 0) =>
           /\ stack' = Append(Callers, heap[Top].next)
           /\ NoEffect
    /\ (AtLoop /\ Cell(ptr) # 0) =>
           /\ stack' = Append(stack, heap[Top].child)
           /\ NoEffect
    /\ (AtLoop /\ Len(stack') = Len(stack)) => (Cell(ptr) = 0 /\ CellAfter = 0)
    /\ (pc = "exec" /\ Len(stack) > 1 /\ Top # NULL) =>
           /\ Len(stack') >= Len(stack)
           /\ SubSeq(stack', 1, Len(stack) - 1) = Callers
    /\ (pc = "exec" /\ Len(stack) > 1 /\ Top = NULL) =>
           /\ stack' = Callers
           /\ AtLoop'
           /\ NoEffect

\* every call but the outermost was made by a loop node, on its body
CalledByLoops ==
    \A i \in 1..(Len(stack) - 1) : heap[stack[i]].type = "NODE_LOOP"

\* C15: a loop node runs a full pass of its body exactly when the cell read just
\* before the pass is not 0, the first pass included; met with 0 it has no
\* effect; the test is applied only at the loop node, never inside a body; and
\* a loop node is left only with the cell at 0.
C15_LoopTestsBeforeEachPass ==
    /\ [][LoopStep]_vars
    /\ [](pc = "exec" => CalledByLoops)

C15_Witness ==
    /\ pc = "done"
    /\ source = <<",", "[", ",", "]", "[", "]">>
    /\ input = <<1>>
    /\ inpos = 1
    /\ data = NoEntries

\* node n is a loop with no body
EmptyLoop(n) == n # NULL /\ heap[n].type = "NODE_LOOP" /\ heap[n].child = NULL

\* the executor is at a '[]' with the cell not 0, or in the call on its body
Spinning ==
    /\ pc = "exec"
    /\ Cell(ptr) # 0
    /\ \/ EmptyLoop(Top)
       \/ Len(stack) >= 2 /\ Top = NULL /\ EmptyLoop(stack[Len(stack) - 1])

\* the call that holds the spinning loop
SpinFrame == IF EmptyLoop(Top) THEN Len(stack) ELSE Len(stack) - 1

\* a step of a spinning '[]' leaves it spinning: the loop's call and its callers
\* stay at their nodes, and tape, pointer and streams stay as they are
SpinStep ==
    Spinning =>
        /\ Spinning'
        /\ SubSeq(stack', 1, SpinFrame) = SubSeq(stack, 1, SpinFrame)
        /\ NoEffect

\* a spinning '[]' always has a next step and the process has not exited
SpinsOn == Spinning => (ENABLED Next /\ exitCode = NoStatus /\ tape = "live")

\* C16: a '[]' reached with the cell not 0 never ends: from then on the executor
\* always has a step to take, every step leaves it at that loop, and tape,
\* pointer and output never change.
C16_EmptyLoopSpins ==
    /\ [][SpinStep]_vars
    /\ []SpinsOn

C16_Witness ==
    /\ Spinning
    /\ source = <<"+", "[", "]">>
    /\ Len(stack) = 2
    /\ Top = NULL

\* for every source of the model, the greatest number of loops open at once
NestingDepth == [s \in Sources |-> MaxDepth(s)]

\* C17: the number of active execute_tree calls never exceeds the nesting depth
\* of the source plus one, nor MAX_LOOP_DEPTH + 1.
C17_RecursionBounded ==
    /\ Len(stack) <= 1 \/ Len(stack) <= NestingDepth[source] + 1
    /\ Len(stack) <= MAX_LOOP_DEPTH + 1

C17_Witness ==
    /\ pc = "exec"
    /\ Len(stack) = MAX_LOOP_DEPTH + 1
    /\ NestingDepth[source] = MAX_LOOP_DEPTH

\* the last node of the chain that starts at n (n # NULL)
RECURSIVE ChainLast(_, _)
ChainLast(h, n) == IF h[n].next = NULL THEN n ELSE ChainLast(h, h[n].next)

\* C18: while the parser scans, depth stays in 0..MAX_LOOP_DEPTH; loop_stack is
\* written only at 0..MAX_LOOP_DEPTH-1 and last_at_depth only at
\* 0..MAX_LOOP_DEPTH; the entry loop_stack[depth-1] read for the parent was
\* written, and is the loop that ends the block around it; and when the
\* parent has a body, last_at_depth[depth] is not NULL and is the last node
\* of that body.
C18_ParserStaysInBounds ==
    /\ 0 <= depth /\ depth <= MAX_LOOP_DEPTH
    /\ DOMAIN loop_stack \subseteq 0..(MAX_LOOP_DEPTH - 1)
    /\ DOMAIN last_at_depth \subseteq 0..MAX_LOOP_DEPTH
    /\ depth > 0 =>
           /\ (depth - 1) \in DOMAIN loop_stack
           /\ LoopStack(depth - 1) # NULL
           /\ heap[LoopStack(depth - 1)].type = "NODE_LOOP"
           /\ heap[LoopStack(depth - 1)].next = NULL
           /\ LoopStack(depth - 1) = LastAtDepth(depth - 1)
           /\ heap[LoopStack(depth - 1)].child # NULL =>
                  /\ LastAtDepth(depth) # NULL
                  /\ LastAtDepth(depth) = ChainLast(heap, heap[LoopStack(depth - 1)].child)

C18_Witness ==
    /\ pc = "compile"
    /\ depth = MAX_LOOP_DEPTH
    /\ heap[LoopStack(depth - 1)].child # NULL
    /\ LastAtDepth(depth) = Len(heap)

\* Each instruction changes only its own part of the runtime state, and the
\* executor never changes the tree.
FrameStep ==
    /\ (AtNode("NODE_INC_PTR") \/ AtNode("NODE_DEC_PTR")) =>
           (data' = data /\ stdout' = stdout /\ inpos' = inpos)
    /\ (AtNode("NODE_INC_VAL") \/ AtNode("NODE_DEC_VAL")) =>
           (ptr' = ptr /\ OtherCellsKept /\ stdout' = stdout /\ inpos' = inpos)
    /\ AtNode("NODE_IN") => (ptr' = ptr /\ OtherCellsKept /\ stdout' = stdout)
    /\ AtNode("NODE_OUT") => (ptr' = ptr /\ data' = data /\ inpos' = inpos)
    /\ AtLoop => NoEffect
    /\ pc = "exec" => (heap' = heap /\ program' = program /\ root' = root)

\* C19: '>' and '<' leave every cell as it is; '+', '-' and ',' leave the
\* pointer and every cell but the one under it; '.' leaves pointer and cells;
\* no step of the executor changes the tree.
C19_InstructionsKeepTheirFrame == [][FrameStep]_vars

C19_Witness ==
    /\ pc = "done"
    /\ source = <<",", ">", "+">>
    /\ input = <<65>>
    /\ ptr = 1
    /\ Cell(0) = 65
    /\ Cell(1) = 1

====
